---- MODULE Spec2Model ----
(***************************************************************************)
(* State-machine model of glean_server.py: the `chat` MCP tool, the        *)
(* transport helper `make_glean_request` and the response extraction       *)
(* (`parse_response` and the tail of `chat`).                              *)
(*                                                                         *)
(* One invocation of chat is followed step by step (pc); the caller's      *)
(* message list, the outcome of the HTTP exchange and the decoded body are *)
(* inputs chosen from small sets.                                          *)
(***************************************************************************)
EXTENDS Integers, Sequences, FiniteSets, TLC

VARIABLES
    GLEAN_API_KEY,   \* module global read from the environment (line 30)
    pc,              \* position of the running invocation of chat
    messages,        \* chat's parameter
    request_data,    \* chat's local: <<>> before it is built, <<body>> after
    http_log,        \* bodies of the HTTP requests issued by this invocation
    transport,       \* what the HTTP exchange produced
    response,        \* chat's local: <<>> or <<decoded JSON body>>
    result           \* what the invocation hands back to the caller

vars == <<GLEAN_API_KEY, pc, messages, request_data, http_log, transport,
          response, result>>

----------------------------------------------------------------------------
(* Bounds of the model *)

\* longest message list a caller passes to chat
MaxInMsgs == 2

\* longest "messages" list in a response body
MaxMsgs == 2

SeqsUpTo(S, n) == UNION {[1..k -> S] : k \in 0..n}

----------------------------------------------------------------------------
(* Error codes and results *)

INVALID_PARAMS == "INVALID_PARAMS"

INTERNAL_ERROR == "INTERNAL_ERROR"

Pending == [kind |-> "pending", code |-> "", text |-> ""]

\* raise McpError(ErrorData(code=..., message=...))
McpError(code, message) == [kind |-> "error", code |-> code, text |-> message]

\* return <string>
Returned(s) == [kind |-> "return", code |-> "", text |-> s]

----------------------------------------------------------------------------
(* Configuration: os.getenv("GLEAN_API_KEY") is None when unset *)

Keys ==
    { [isset |-> FALSE, value |-> ""],
      [isset |-> TRUE,  value |-> ""],
      [isset |-> TRUE,  value |-> "secret"] }

\* `not GLEAN_API_KEY` is false only for a set, non-empty string
KeyMissingOnlyNone(key) == ~key.isset

KeyMissing(key) == ~key.isset \/ key.value = ""

----------------------------------------------------------------------------
(* Caller input: Fragment / ChatMessage objects, or raw dicts *)

Frag(t) == [has_text |-> TRUE, text |-> t]

NoTextFrag == [has_text |-> FALSE, text |-> ""]

InFragLists ==
    { <<>>, <<Frag("a")>>, <<Frag("a"), Frag("b")>>, <<Frag("b"), Frag("a")>> }

InAttrs == { <<"USER", "CONTENT">>, <<"GLEAN_AI", "UPDATE">> }

\* instances of ChatMessage: every fragment is a Fragment, so has its text
ChatMessages ==
    { [kind |-> "ChatMessage", author |-> a[1], messageType |-> a[2],
       fragments |-> fl] : a \in InAttrs, fl \in InFragLists }

\* plain dicts handed in instead of ChatMessage objects
RawDicts ==
    { [kind |-> "dict", author |-> "USER", messageType |-> "CONTENT",
       fragments |-> fl] : fl \in { <<Frag("a")>>, <<NoTextFrag>> } }

InItems == ChatMessages \cup RawDicts

InMessages == SeqsUpTo(InItems, MaxInMsgs)

\* inputs of the specification that explores the response bodies
ExtractInputs ==
    { << [kind |-> "ChatMessage", author |-> "USER", messageType |-> "CONTENT",
          fragments |-> <<Frag("a")>>] >>,
      << [kind |-> "dict", author |-> "USER", messageType |-> "CONTENT",
          fragments |-> <<NoTextFrag>>] >>,
      << [kind |-> "dict", author |-> "USER", messageType |-> "CONTENT",
          fragments |-> <<Frag("a")>>] >> }

\* ChatRequest(messages=messages, ...) validates: a ChatMessage instance is
\* accepted, a dict is coerced and needs a text in every fragment
CoercibleNoCheck(msgs) == TRUE

Coercible(msgs) ==
    \A i \in 1..Len(msgs) :
        \A j \in 1..Len(msgs[i].fragments) : msgs[i].fragments[j].has_text

\* str(e) of the pydantic ValidationError
ValidationErrorText == "validation error for ChatRequest"

\* message.dict() exists on ChatMessage only
HasDictMethod(m) == m.kind = "ChatMessage"

DictFirstFragmentOnly(m) ==
    [author |-> m.author,
     fragments |-> [j \in 1..(IF Len(m.fragments) = 0 THEN 0 ELSE 1) |->
                        [text |-> m.fragments[j].text]],
     messageType |-> m.messageType]

\* message.dict()
Dict(m) ==
    [author |-> m.author,
     fragments |-> [j \in 1..Len(m.fragments) |-> [text |-> m.fragments[j].text]],
     messageType |-> m.messageType]

\* the request_data literal of chat
RequestData(msgs) ==
    [messages |-> [i \in 1..Len(msgs) |-> Dict(msgs[i])],
     saveChat |-> TRUE,
     stream |-> FALSE]

AttributeErrorText == "'dict' object has no attribute 'dict'"

ProcessingErrorPrefix == "Error processing chat request: "

----------------------------------------------------------------------------
(* Transport: the HTTP exchange inside make_glean_request *)

NoTransport == [kind |-> "none", status |-> 0, detail |-> ""]

Statuses == {200, 201, 302, 400, 401, 403, 404, 429, 500, 503}

\* httpx Response.is_success
IsSuccess(status) == status >= 200 /\ status <= 299

ErrorStatuses == {s \in Statuses : ~IsSuccess(s)}

\* str(e) of httpx.RequestError subclasses other than timeouts
RequestErrorDetails == {"", "All connection attempts failed", "Invalid Glean API key"}

\* what client.request / the status checks / response.json() can produce
TimeoutOutcome == [kind |-> "timeout", status |-> 0, detail |-> ""]

RequestErrorOutcome(d) == [kind |-> "request_error", status |-> 0, detail |-> d]

\* a response whose body decodes as JSON ("json") or does not ("not_json")
ResponseOutcome(status, body) == [kind |-> "response", status |-> status, detail |-> body]

\* str(e) of the httpx.HTTPStatusError raised by response.raise_for_status()
StatusLine(status) ==
    CASE status = 302 -> "Redirect response '302 Found'"
      [] status = 400 -> "Client error '400 Bad Request'"
      [] status = 401 -> "Client error '401 Unauthorized'"
      [] status = 403 -> "Client error '403 Forbidden'"
      [] status = 404 -> "Client error '404 Not Found'"
      [] status = 429 -> "Client error '429 Too Many Requests'"
      [] status = 500 -> "Server error '500 Internal Server Error'"
      [] status = 503 -> "Server error '503 Service Unavailable'"
      [] OTHER -> "error"

NoException == [type |-> "none", message |-> ""]

Exception(type, message) == [type |-> type, message |-> message]

\* a variant of the status checks without the 403 branch
StatusCheckNo403(status) ==
    IF status = 401 THEN Exception("GleanAPIError", "Invalid Glean API key")
    ELSE IF status = 429 THEN Exception("GleanAPIError", "Rate limit exceeded")
    ELSE IF ~IsSuccess(status) THEN Exception("HTTPStatusError", StatusLine(status))
    ELSE NoException

\* the explicit status checks, then response.raise_for_status()
StatusCheck(status) ==
    IF status = 401 THEN Exception("GleanAPIError", "Invalid Glean API key")
    ELSE IF status = 403
    THEN Exception("GleanAPIError", "Access forbidden - check API key permissions")
    ELSE IF status = 429 THEN Exception("GleanAPIError", "Rate limit exceeded")
    ELSE IF ~IsSuccess(status) THEN Exception("HTTPStatusError", StatusLine(status))
    ELSE NoException

\* the exception, if any, raised inside the try block of make_glean_request
Raised(o) ==
    CASE o.kind = "timeout" -> Exception("TimeoutException", o.detail)
      [] o.kind = "request_error" -> Exception("RequestError", o.detail)
      [] o.kind = "response" ->
           IF StatusCheck(o.status) # NoException THEN StatusCheck(o.status)
           ELSE IF o.detail = "not_json"
                THEN Exception("JSONDecodeError", "Expecting value: line 1 column 1 (char 0)")
                ELSE NoException
      [] OTHER -> NoException

\* the except clauses of make_glean_request, in order; other exceptions propagate
Handled(e) ==
    e.type \in {"TimeoutException", "RequestError", "GleanAPIError", "HTTPStatusError"}

ExceptClauses(e) ==
    CASE e.type = "TimeoutException" ->
           McpError(INTERNAL_ERROR, "Request to Glean API timed out")
      [] e.type = "RequestError" ->
           McpError(INTERNAL_ERROR, "Failed to connect to Glean API: " \o e.message)
      [] e.type = "GleanAPIError" -> McpError(INTERNAL_ERROR, e.message)
      [] e.type = "HTTPStatusError" ->
           McpError(INTERNAL_ERROR, "Glean API error: " \o e.message)

\* chat: `except McpError: raise`, and `except Exception` wraps anything else
ChatExcept(e) == McpError(INTERNAL_ERROR, ProcessingErrorPrefix \o e.message)

\* where the invocation stands once an exception left make_glean_request:
\* it propagates out of chat, nothing re-enters the request
PcRetry == "send"

PcAfterRaise == "done"

----------------------------------------------------------------------------
(* Decoded response bodies (semi-structured JSON) *)

AI_AUTHOR == "GLEAN_AI"

\* fragments of a response message: with a text, or without the key
RespFragLists ==
    { <<>>, <<Frag("a")>>, <<NoTextFrag>>, <<Frag("a"), Frag("b")>>,
      <<Frag("b"), Frag("a")>>, <<Frag("a"), NoTextFrag>>, <<NoTextFrag, Frag("b")>> }

\* an entry of "messages": a dict (author and fragments optional) or not a dict
NonDictEntry ==
    [is_dict |-> FALSE, has_author |-> FALSE, author |-> "",
     has_fragments |-> FALSE, fragments |-> <<>>]

DictEntry(a, fl) ==
    [is_dict |-> TRUE, has_author |-> TRUE, author |-> a,
     has_fragments |-> TRUE, fragments |-> fl]

RespEntries ==
    {NonDictEntry}
    \cup {DictEntry(a, fl) : a \in {"USER", AI_AUTHOR}, fl \in RespFragLists}
    \cup {[DictEntry(a, <<>>) EXCEPT !.has_fragments = FALSE] : a \in {"USER", AI_AUTHOR}}
    \cup {[DictEntry("", <<Frag("a")>>) EXCEPT !.has_author = FALSE]}

\* the value under "messages": absent, a list, or something that is no list
MessagesValues(n) ==
    { [present |-> FALSE, is_list |-> FALSE, items |-> <<>>],
      [present |-> TRUE,  is_list |-> FALSE, items |-> <<>>] }
    \cup {[present |-> TRUE, is_list |-> TRUE, items |-> l] : l \in SeqsUpTo(RespEntries, n)}

\* the value under "content": absent, a string, or something that is no string
ContentValues ==
    { [present |-> FALSE, is_str |-> FALSE, text |-> ""],
      [present |-> TRUE,  is_str |-> TRUE,  text |-> "plain text"],
      [present |-> TRUE,  is_str |-> FALSE, text |-> ""] }

\* a JSON object; `other` says whether it has keys besides messages and content
ObjectBodies(n) ==
    { [type |-> "object", messages |-> m, content |-> c, other |-> o] :
        m \in MessagesValues(n), c \in ContentValues, o \in BOOLEAN }

\* JSON values that are no object: null, and a non-zero number
NonObjectBodies ==
    { [type |-> t, messages |-> [present |-> FALSE, is_list |-> FALSE, items |-> <<>>],
       content |-> [present |-> FALSE, is_str |-> FALSE, text |-> ""], other |-> FALSE] :
        t \in {"null", "number"} }

Bodies == ObjectBodies(MaxMsgs) \cup NonObjectBodies

\* the bodies of the specification that explores the call flow
FlowBodies == ObjectBodies(0) \cup NonObjectBodies

EmptyObject ==
    [type |-> "object", messages |-> [present |-> FALSE, is_list |-> FALSE, items |-> <<>>],
     content |-> [present |-> FALSE, is_str |-> FALSE, text |-> ""], other |-> FALSE]

----------------------------------------------------------------------------
(* Response extraction *)

SEPARATOR == "\n---\n"

RECURSIVE Join(_, _)
\* sep.join(strs)
Join(sep, strs) ==
    IF Len(strs) = 0 THEN ""
    ELSE IF Len(strs) = 1 THEN strs[1]
    ELSE strs[1] \o sep \o Join(sep, Tail(strs))

RECURSIVE FragmentTexts(_)
\* the inner loop of parse_response: the text of each fragment that has one
FragmentTexts(frags) ==
    IF Len(frags) = 0 THEN <<>>
    ELSE (IF frags[1].has_text THEN <<frags[1].text>> ELSE <<>>)
         \o FragmentTexts(Tail(frags))

\* a variant that processes only the last message of json_data
parse_response_last_only(json_data) ==
    IF Len(json_data) = 0 THEN <<>>
    ELSE IF json_data[Len(json_data)].has_fragments
         THEN FragmentTexts(json_data[Len(json_data)].fragments)
         ELSE <<>>

RECURSIVE parse_response(_)
\* parse_response(json_data): over every message of json_data
parse_response(json_data) ==
    IF Len(json_data) = 0 THEN <<>>
    ELSE (IF json_data[1].has_fragments THEN FragmentTexts(json_data[1].fragments)
          ELSE <<>>)
         \o parse_response(Tail(json_data))

\* variants of the emptiness check: none at all, and one that looks at "messages"
TruthyAlways(r) == TRUE

TruthyNeedsMessages(r) == r.messages.present /\ Len(r.messages.items) > 0

\* Python truthiness of the decoded body (`not response`)
Truthy(r) ==
    CASE r.type = "object" -> r.messages.present \/ r.content.present \/ r.other
      [] r.type = "null" -> FALSE
      [] r.type = "number" -> TRUE

\* the list comprehension of chat that filters the assistant messages
assistant_messages(r) ==
    SelectSeq(r.messages.items,
              LAMBDA msg : msg.is_dict /\ msg.has_author /\ msg.author = AI_AUTHOR)

\* `"messages" in response` on a number: TypeError, wrapped by `except Exception`
TypeErrorText == "argument of type 'int' is not iterable"

\* a variant of the extraction that looks at "content" before "messages"
ExtractContentFirst(r) ==
    IF ~Truthy(r)
    THEN McpError(INTERNAL_ERROR, "Empty response received from Glean Chat API")
    ELSE IF r.type = "number"
    THEN ChatExcept(Exception("TypeError", TypeErrorText))
    ELSE IF r.content.present /\ r.content.is_str
    THEN Returned(r.content.text)
    ELSE IF r.messages.present /\ r.messages.is_list /\ Len(assistant_messages(r)) > 0
    THEN Returned(Join(SEPARATOR, parse_response(assistant_messages(r))))
    ELSE McpError(INTERNAL_ERROR,
                  "Could not extract assistant response from Glean Chat API")

\* chat once make_glean_request returned: the emptiness check and the extraction
Extract(r) ==
    IF ~Truthy(r)
    THEN McpError(INTERNAL_ERROR, "Empty response received from Glean Chat API")
    ELSE IF r.type = "number"
    THEN ChatExcept(Exception("TypeError", TypeErrorText))
    ELSE IF r.messages.present /\ r.messages.is_list /\ Len(assistant_messages(r)) > 0
    THEN Returned(Join(SEPARATOR, parse_response(assistant_messages(r))))
    ELSE IF r.content.present /\ r.content.is_str
    THEN Returned(r.content.text)
    ELSE McpError(INTERNAL_ERROR,
                  "Could not extract assistant response from Glean Chat API")

----------------------------------------------------------------------------
(* The state machine *)

Init ==
    /\ GLEAN_API_KEY \in Keys
    /\ pc = "idle"
    /\ messages = <<>>
    /\ request_data = <<>>
    /\ http_log = <<>>
    /\ transport = NoTransport
    /\ response = <<>>
    /\ result = Pending

\* the host calls chat(messages)
Invoke(inputs) ==
    /\ pc = "idle"
    /\ \E m \in inputs : messages' = m
    /\ pc' = "validate"
    /\ UNCHANGED <<GLEAN_API_KEY, request_data, http_log, transport, response, result>>

\* first try block of chat: build the ChatRequest, ValueError -> INVALID_PARAMS
Validate ==
    /\ pc = "validate"
    /\ IF Coercible(messages)
       THEN /\ pc' = "build"
            /\ UNCHANGED result
       ELSE /\ pc' = "done"
            /\ result' = McpError(INVALID_PARAMS, ValidationErrorText)
    /\ UNCHANGED <<GLEAN_API_KEY, messages, request_data, http_log, transport, response>>

\* request_data = {...}: message.dict() on every element of `messages`
BuildRequest ==
    /\ pc = "build"
    /\ IF \A i \in 1..Len(messages) : HasDictMethod(messages[i])
       THEN /\ request_data' = <<RequestData(messages)>>
            /\ pc' = "check_key"
            /\ UNCHANGED result
       ELSE /\ result' = ChatExcept(Exception("AttributeError", AttributeErrorText))
            /\ pc' = "done"
            /\ UNCHANGED request_data
    /\ UNCHANGED <<GLEAN_API_KEY, messages, http_log, transport, response>>

\* make_glean_request entered: `if not GLEAN_API_KEY: raise McpError(...)`
CheckKey ==
    /\ pc = "check_key"
    /\ IF KeyMissing(GLEAN_API_KEY)
       THEN /\ result' = McpError(INTERNAL_ERROR,
                                  "GLEAN_API_KEY environment variable is not set")
            /\ pc' = "done"
       ELSE /\ pc' = "send"
            /\ UNCHANGED result
    /\ UNCHANGED <<GLEAN_API_KEY, messages, request_data, http_log, transport, response>>

\* client.request(method, url, headers=..., json=data, timeout=300.0) goes out
SendRequest ==
    /\ pc = "send"
    /\ http_log' = Append(http_log, request_data[1])
    /\ pc' = "await"
    /\ UNCHANGED <<GLEAN_API_KEY, messages, request_data, transport, response, result>>

\* the exchange ended with outcome o, which raises inside make_glean_request
Fails(o) ==
    /\ transport' = o
    /\ response' = response
    /\ IF Handled(Raised(o))
       THEN /\ result' = ExceptClauses(Raised(o))
            /\ pc' = PcAfterRaise
       ELSE /\ result' = ChatExcept(Raised(o))
            /\ pc' = "done"
    /\ UNCHANGED <<GLEAN_API_KEY, messages, request_data, http_log>>

\* the request exceeds the timeout: httpx.TimeoutException
Timeout ==
    /\ pc = "await"
    /\ Fails(TimeoutOutcome)

\* the connection fails: another httpx.RequestError
ConnectionFailure ==
    /\ pc = "await"
    /\ \E d \in RequestErrorDetails : Fails(RequestErrorOutcome(d))

\* a response with a non-2xx status arrives
ErrorStatus ==
    /\ pc = "await"
    /\ \E s \in ErrorStatuses : Fails(ResponseOutcome(s, "json"))

\* a 2xx response arrives whose body is not JSON: response.json() raises
UndecodableBody ==
    /\ pc = "await"
    /\ \E s \in Statuses \ ErrorStatuses : Fails(ResponseOutcome(s, "not_json"))

\* a 2xx response arrives and response.json() returns the decoded body
Success(bodies) ==
    /\ pc = "await"
    /\ \E s \in Statuses \ ErrorStatuses, b \in bodies :
          /\ Raised(ResponseOutcome(s, "json")) = NoException
          /\ transport' = ResponseOutcome(s, "json")
          /\ response' = <<b>>
    /\ pc' = "extract"
    /\ UNCHANGED <<GLEAN_API_KEY, messages, request_data, http_log, result>>

\* chat inspects the decoded body and returns or raises
ExtractResponse ==
    /\ pc = "extract"
    /\ result' = Extract(response[1])
    /\ pc' = "done"
    /\ UNCHANGED <<GLEAN_API_KEY, messages, request_data, http_log, transport, response>>

\* the result reaches the host; the invocation's locals are gone
Return ==
    /\ pc = "done"
    /\ pc' = "idle"
    /\ messages' = <<>>
    /\ request_data' = <<>>
    /\ http_log' = <<>>
    /\ transport' = NoTransport
    /\ response' = <<>>
    /\ result' = Pending
    /\ UNCHANGED GLEAN_API_KEY

Next ==
    \/ Invoke(InMessages)
    \/ Validate
    \/ BuildRequest
    \/ CheckKey
    \/ SendRequest
    \/ Timeout
    \/ ConnectionFailure
    \/ ErrorStatus
    \/ UndecodableBody
    \/ Success(FlowBodies)
    \/ ExtractResponse
    \/ Return

Spec == Init /\ [][Next]_vars

\* the same program, with few inputs and the full set of response bodies
NextExtract ==
    \/ Invoke(ExtractInputs)
    \/ Validate
    \/ BuildRequest
    \/ CheckKey
    \/ SendRequest
    \/ Timeout
    \/ ConnectionFailure
    \/ ErrorStatus
    \/ UndecodableBody
    \/ Success(Bodies)
    \/ ExtractResponse
    \/ Return

SpecExtract == Init /\ [][NextExtract]_vars

----------------------------------------------------------------------------
(* Properties *)

\* the caller's list has a fragment without text: ChatRequest cannot be built
MalformedInput ==
    \E i \in 1..Len(messages) :
        \E j \in 1..Len(messages[i].fragments) : ~messages[i].fragments[j].has_text

NoKeyConfigured == ~GLEAN_API_KEY.isset \/ GLEAN_API_KEY.value = ""

IsError(code) == result.kind = "error" /\ result.code = code

\* the exchange, once over, did not yield a decoded 2xx body
TransportFailed ==
    \/ transport.kind \in {"timeout", "request_error"}
    \/ transport.kind = "response" /\ (transport.status < 200 \/ transport.status > 299)
    \/ transport.kind = "response" /\ transport.detail = "not_json"

\* C1: validation precedes network activity. An invocation whose message list
\* cannot be coerced never gets past validation, issues no HTTP request and
\* ends with INVALID_PARAMS; and INVALID_PARAMS is never the result of an
\* invocation that has issued an HTTP request.
C1_ValidationPrecedesNetwork ==
    /\ MalformedInput => (http_log = <<>> /\ pc \in {"validate", "done"})
    /\ (MalformedInput /\ pc = "done") => IsError(INVALID_PARAMS)
    /\ (http_log # <<>>) => ~IsError(INVALID_PARAMS)

C1_Witness ==
    /\ pc = "done"
    /\ MalformedInput
    /\ IsError(INVALID_PARAMS)
    /\ http_log = <<>>

\* C2 as stated: with no API key configured, every call to chat ends with an
\* INTERNAL_ERROR and attempts no HTTP request.
C2_EveryCallInternalError ==
    NoKeyConfigured =>
        /\ http_log = <<>>
        /\ pc = "done" => IsError(INTERNAL_ERROR)

\* C2 amended: with no API key configured, no call attempts an HTTP request
\* and every call fails: with INVALID_PARAMS when the message list fails
\* validation (which runs first), with INTERNAL_ERROR otherwise.
C2_NoKeyNoRequest ==
    NoKeyConfigured =>
        /\ http_log = <<>>
        /\ pc \notin {"send", "await", "extract"}
        /\ pc = "done" =>
              IF MalformedInput THEN IsError(INVALID_PARAMS) ELSE IsError(INTERNAL_ERROR)

C2_Witness ==
    /\ NoKeyConfigured
    /\ GLEAN_API_KEY.isset
    /\ pc = "done"
    /\ request_data # <<>>
    /\ result = McpError(INTERNAL_ERROR, "GLEAN_API_KEY environment variable is not set")
    /\ http_log = <<>>

\* C3: an invocation issues at most one HTTP request, and a failed exchange
\* (timeout, connection failure, non-2xx status, undecodable body) leaves the
\* invocation terminated with an error after exactly that one request.
C3_SingleRequestNoRetry ==
    /\ Len(http_log) <= 1
    /\ TransportFailed =>
          /\ pc = "done"
          /\ result.kind = "error"
          /\ Len(http_log) = 1

C3_Witness ==
    /\ transport.kind = "response"
    /\ transport.status = 429
    /\ pc = "done"
    /\ result.kind = "error"
    /\ Len(http_log) = 1

\* the messages of all failures that come with an HTTP status
C4_StatusMessages ==
    { "Invalid Glean API key",
      "Access forbidden - check API key permissions",
      "Rate limit exceeded" }
    \cup {"Glean API error: " \o StatusLine(s) : s \in ErrorStatuses}

\* C4: every outcome other than a 2xx response ends as INTERNAL_ERROR with the
\* message of its kind: 401, 403 and 429 their own messages, other statuses
\* the generic HTTP-status message, and a timeout or connection failure a
\* message that no HTTP-status failure has.
C4_ErrorMapping ==
    (\/ transport.kind \in {"timeout", "request_error"}
     \/ (transport.kind = "response" /\ (transport.status < 200 \/ transport.status > 299)))
    =>  /\ pc = "done"
        /\ IsError(INTERNAL_ERROR)
        /\ (transport.kind = "response" /\ transport.status = 401)
              => result.text = "Invalid Glean API key"
        /\ (transport.kind = "response" /\ transport.status = 403)
              => result.text = "Access forbidden - check API key permissions"
        /\ (transport.kind = "response" /\ transport.status = 429)
              => result.text = "Rate limit exceeded"
        /\ (transport.kind = "response" /\ transport.status \notin {401, 403, 429})
              => result.text = "Glean API error: " \o StatusLine(transport.status)
        /\ (transport.kind = "timeout")
              => (result.text = "Request to Glean API timed out"
                  /\ result.text \notin C4_StatusMessages)
        /\ (transport.kind = "request_error")
              => (result.text = "Failed to connect to Glean API: " \o transport.detail
                  /\ result.text \notin C4_StatusMessages
                  /\ result.text # "Request to Glean API timed out")

C4_Witness ==
    /\ pc = "done"
    /\ transport.kind = "response"
    /\ transport.status = 403
    /\ result = McpError(INTERNAL_ERROR, "Access forbidden - check API key permissions")

\* C9: the body chat hands to the transport (and the one that goes out) holds
\* exactly the caller's messages: same number and order, each with its
\* author, messageType and fragment texts in order, plus saveChat = true and
\* stream = false.
C9_RequestBodyFaithful ==
    (request_data # <<>>) =>
        LET b == request_data[1] IN
        /\ DOMAIN b = {"messages", "saveChat", "stream"}
        /\ b.saveChat = TRUE
        /\ b.stream = FALSE
        /\ Len(b.messages) = Len(messages)
        /\ \A i \in 1..Len(messages) :
              /\ DOMAIN b.messages[i] = {"author", "fragments", "messageType"}
              /\ b.messages[i].author = messages[i].author
              /\ b.messages[i].messageType = messages[i].messageType
              /\ Len(b.messages[i].fragments) = Len(messages[i].fragments)
              /\ \A j \in 1..Len(messages[i].fragments) :
                    /\ DOMAIN b.messages[i].fragments[j] = {"text"}
                    /\ b.messages[i].fragments[j].text = messages[i].fragments[j].text
        /\ \A k \in 1..Len(http_log) : http_log[k] = b

C9_Witness ==
    /\ pc = "await"
    /\ Len(http_log) = 1
    /\ Len(messages) = 2
    /\ messages[1].author # messages[2].author
    /\ Len(messages[1].fragments) = 2
    /\ http_log[1].messages[1].fragments[1].text = "b"
    /\ http_log[1].messages[1].fragments[2].text = "a"

\* the decoded body, once chat has one and has finished
Decoded == pc = "done" /\ response # <<>>

EmptyResponseError ==
    McpError(INTERNAL_ERROR, "Empty response received from Glean Chat API")

CouldNotExtractError ==
    McpError(INTERNAL_ERROR, "Could not extract assistant response from Glean Chat API")

\* a JSON object whose "messages" is missing or is the empty list
NoMessagesOrEmpty(r) ==
    /\ r.type = "object"
    /\ \/ ~r.messages.present
       \/ (r.messages.is_list /\ r.messages.items = <<>>)

IsAssistantEntry(e) == e.is_dict /\ e.has_author /\ e.author = "GLEAN_AI"

\* a JSON object whose "messages" is a list with an entry authored by GLEAN_AI
HasAssistantEntry(r) ==
    /\ r.type = "object"
    /\ r.messages.present
    /\ r.messages.is_list
    /\ \E i \in 1..Len(r.messages.items) : IsAssistantEntry(r.messages.items[i])

\* C5 as stated: a decoded body with "messages" missing or empty makes chat
\* fail with the "empty response" error.
C5_EmptyMessagesIsEmptyResponse ==
    (Decoded /\ NoMessagesOrEmpty(response[1])) => result = EmptyResponseError

\* C5 amended: for a decoded body with "messages" missing or empty, the
\* "empty response" error is raised only when the body has no key at all;
\* otherwise chat returns "content" when that is a string and else fails with
\* the "could not extract" error (so {"messages": []} gives "could not extract").
C5_EmptyMessagesOutcome ==
    (Decoded /\ NoMessagesOrEmpty(response[1])) =>
        LET r == response[1] IN
        IF ~r.messages.present /\ ~r.content.present /\ ~r.other
        THEN result = EmptyResponseError
        ELSE IF r.content.present /\ r.content.is_str
        THEN result = Returned(r.content.text)
        ELSE result = CouldNotExtractError

C5_Witness ==
    /\ Decoded
    /\ response[1] = [EmptyObject EXCEPT
                         !.messages = [present |-> TRUE, is_list |-> TRUE, items |-> <<>>]]
    /\ result = CouldNotExtractError

\* C6 as stated: the decoded body {} makes chat fail with the "could not
\* extract assistant response" error.
C6_EmptyObjectCouldNotExtract ==
    (Decoded /\ response[1] = EmptyObject) => result = CouldNotExtractError

\* C6 amended: the decoded body {} makes chat fail with the "empty response"
\* INTERNAL_ERROR (the emptiness check comes first), not "could not extract".
C6_EmptyObjectIsEmptyResponse ==
    (Decoded /\ response[1] = EmptyObject) =>
        /\ result = EmptyResponseError
        /\ result # CouldNotExtractError

C6_Witness ==
    /\ Decoded
    /\ response[1] = EmptyObject
    /\ IsError(INTERNAL_ERROR)
    /\ result.text = "Empty response received from Glean Chat API"

\* the last entry of `items` authored by GLEAN_AI
C7_LastAssistant(items) ==
    items[CHOOSE i \in 1..Len(items) :
            /\ IsAssistantEntry(items[i])
            /\ \A k \in (i + 1)..Len(items) : ~IsAssistantEntry(items[k])]

\* C7: with an assistant entry in "messages", the returned string is built
\* from the last assistant-authored message only: its fragment texts joined,
\* nothing of earlier assistant messages.
C7_LastAssistantOnly ==
    (Decoded /\ HasAssistantEntry(response[1])) =>
        LET last == C7_LastAssistant(response[1].messages.items) IN
        result = Returned(Join("\n---\n",
                               IF last.has_fragments THEN FragmentTexts(last.fragments)
                               ELSE <<>>))

\* C8: the content fallback is used exactly when no assistant message is
\* found. A non-empty object without an assistant entry and with a string
\* "content" yields that string unchanged; with an assistant entry, the
\* result is the one the same body without "content" yields.
C8_ContentFallback ==
    (Decoded /\ response[1].type = "object") =>
        LET r == response[1] IN
        /\ (~HasAssistantEntry(r) /\ r.content.present /\ r.content.is_str)
              => result = Returned(r.content.text)
        /\ HasAssistantEntry(r) =>
              /\ result.kind = "return"
              /\ \A c \in ContentValues : result = Extract([r EXCEPT !.content = c])

C8_Witness ==
    /\ Decoded
    /\ response[1].messages.present
    /\ response[1].messages.is_list
    /\ Len(response[1].messages.items) = 2
    /\ ~HasAssistantEntry(response[1])
    /\ result = Returned("plain text")

RECURSIVE C10_AssistantTexts(_)
\* the texts of the fragments of the GLEAN_AI entries, in message then fragment order
C10_AssistantTexts(items) ==
    IF items = <<>> THEN <<>>
    ELSE LET e == items[1]
             own == IF IsAssistantEntry(e) /\ e.has_fragments
                    THEN SelectSeq([j \in 1..Len(e.fragments) |->
                                      [has |-> e.fragments[j].has_text,
                                       t |-> e.fragments[j].text]],
                                   LAMBDA f : f.has)
                    ELSE <<>>
         IN [j \in 1..Len(own) |-> own[j].t] \o C10_AssistantTexts(Tail(items))

====
